---- MODULE Spec2Model ----
(***************************************************************************)
(* State-machine model of jira_importer.py: the command-line entry point,  *)
(* the configuration and client set-up, the import loop over epics and     *)
(* their stories (find-or-create against the remote tracker) and the       *)
(* metadata report.  The tracker is the environment: every remote call     *)
(* may raise, and a search answers with the issues whose type matches and  *)
(* whose summary contains the searched text.                               *)
(***************************************************************************)
EXTENDS Integers, Sequences, FiniteSets, TLC

\* ------------------------------------------------------------------ bounds
\* Most entities (epics plus stories) a stories document holds.
MaxEntities == 4
\* Most issues the tracker holds before the first run.
MaxPre == 1

\* ------------------------------------------------------------ input values
\* Summaries are character sequences; the second contains the first.
Summaries == { <<"a">>, <<"a", "b">> }

ConfigKeys == {"url", "username", "api_token", "project_key", "epic_type_id", "story_type_id"}

EpicTypeId == "10000"
StoryTypeId == "10001"
ProjectKey == "PROJ"
OtherProject == "OTHER"

\* Python's None for an epic key; issue keys are 1, 2, ...
None == 0

StoryDefs == [summary : Summaries]
EpicDefs(nstories) == [summary : Summaries, stories : [1..nstories -> StoryDefs]]

\* The epic sequences that hold exactly k entities in all.
RECURSIVE EpicSeqsOfSize(_)
EpicSeqsOfSize(k) ==
  IF k = 0 THEN { <<>> }
  ELSE UNION { { <<ep>> \o rest : ep \in EpicDefs(j), rest \in EpicSeqsOfSize(k - 1 - j) } : j \in 0..(k - 1) }

EpicSeqs == UNION { EpicSeqsOfSize(k) : k \in 0..MaxEntities }

\* A stories file: unreadable/unparsable, or a document of the JSON schema.
Docs == {[readable |-> FALSE, epics |-> <<>>]} \cup { [readable |-> TRUE, epics |-> es] : es \in EpicSeqs }

\* A configuration file: unreadable, complete, or lacking exactly one key.
Configs == {[readable |-> FALSE, keys |-> {}]} \cup {[readable |-> TRUE, keys |-> ConfigKeys]} \cup { [readable |-> TRUE, keys |-> ConfigKeys \ {k}] : k \in ConfigKeys }

\* Issues the tracker holds before the first run (key = position).
PreIssues(k) == { [key |-> k, type |-> t, summary |-> s, epic |-> None] : t \in {EpicTypeId, StoryTypeId}, s \in Summaries }
PreTrackers == UNION { { tr \in [1..n -> UNION { PreIssues(k) : k \in 1..n }] : \A k \in 1..n : tr[k].key = k } : n \in 0..MaxPre }

\* --------------------------------------------------------------- variables
VARIABLES
  pc,         \* position of the process
  mode,       \* "import" or "metadata" (the command line)
  config,     \* the configuration file
  doc,        \* the stories file
  tracker,    \* the remote tracker's issues, in creation order
  projects,   \* the project keys the tracker lists
  ei,         \* index of the epic being processed
  si,         \* index of the story being processed
  epic_key,   \* the key _create_epic returned for the current epic
  log,        \* remote search/create calls issued, in order
  returns,    \* what _create_story returned, per story visited, with whether
              \* the story was present beforehand and the tracker changed
  exit_code,  \* process exit status once pc = "exited"
  run,        \* 1 for the first invocation, 2 for the second
  clean,      \* no remote call of the current run has raised
  snapshot,   \* the tracker as the second invocation found it
  out,        \* metadata mode: what was printed, in order
  fetches     \* metadata mode: the fetches made, in order

vars == <<pc, mode, config, doc, tracker, projects, ei, si, epic_key, log, returns, exit_code, run, clean, snapshot, out, fetches>>

\* ------------------------------------------------------- the remote tracker
\* hay contains needle as a contiguous substring.
Contains(hay, needle) ==
  \E i \in 1..(Len(hay) - Len(needle) + 1) : SubSeq(hay, i, i + Len(needle) - 1) = needle

\* The tracker's answer to a search: the issues of the queried type whose
\* summary contains the queried text, in tracker order.
Jql(tr, q) ==
  SelectSeq(tr, LAMBDA i : i.type = q.type /\ Contains(i.summary, q.text))

\* The tracker creating an issue from the given fields: it assigns the key.
CreateIssue(tr, fields) ==
  Append(tr, [key |-> Len(tr) + 1, type |-> fields.type, summary |-> fields.summary, epic |-> fields.epic])

\* ------------------------------------------------------------ _create_epic
EpicJql(epic_data) == [type |-> EpicTypeId, text |-> epic_data.summary]

EpicFields(epic_data) == [type |-> EpicTypeId, summary |-> epic_data.summary, epic |-> None]

\* Mutant: the key of the last issue the search returned.
FoundEpicKey_last(issues) == issues[Len(issues)].key

\* existing_epics['issues'][0]['key']
FoundEpicKey(issues) == issues[1].key

Keys(issues) == [i \in 1..Len(issues) |-> issues[i].key]

SearchCall(ok, issues) == [op |-> "search", ok |-> ok, found |-> Keys(issues), link |-> None, key |-> None]

CreateCall(ok, link, key) == [op |-> "create", ok |-> ok, found |-> <<>>, link |-> link, key |-> key]

\* The whole handler; sfail/cfail say whether the search/the create raises.
\* Result: the returned key, the tracker afterwards, the remote calls made.
create_epic(tr, cfg, epic_data, sfail, cfail) ==
  IF ~({"project_key", "epic_type_id"} \subseteq cfg.keys)
    THEN [key |-> None, tracker |-> tr, calls |-> <<>>]
  ELSE LET existing == Jql(tr, EpicJql(epic_data)) IN
    IF sfail
      THEN [key |-> None, tracker |-> tr, calls |-> <<SearchCall(FALSE, <<>>)>>]
    ELSE IF existing # <<>>
      THEN [key |-> FoundEpicKey(existing), tracker |-> tr, calls |-> <<SearchCall(TRUE, existing)>>]
    ELSE IF cfail
      THEN [key |-> None, tracker |-> tr,
            calls |-> <<SearchCall(TRUE, existing), CreateCall(FALSE, None, None)>>]
    ELSE LET tr2 == CreateIssue(tr, EpicFields(epic_data)) IN
      [key |-> tr2[Len(tr2)].key, tracker |-> tr2,
       calls |-> <<SearchCall(TRUE, existing), CreateCall(TRUE, None, tr2[Len(tr2)].key)>>]

\* ----------------------------------------------------------- _create_story
\* Mutant: the story search asks for the epic issue type.
StoryJql_epicType(story_data) == [type |-> EpicTypeId, text |-> story_data.summary]

StoryJql(story_data) == [type |-> StoryTypeId, text |-> story_data.summary]

\* Mutant: the story is created with the epic issue type.
StoryFields_epicType(story_data, key) ==
  [type |-> EpicTypeId, summary |-> story_data.summary, epic |-> IF key # None THEN key ELSE None]

StoryFields(story_data, key) ==
  [type |-> StoryTypeId, summary |-> story_data.summary, epic |-> IF key # None THEN key ELSE None]

\* Result: the returned boolean, the tracker afterwards, the remote calls made.
create_story(tr, cfg, story_data, key, sfail, cfail) ==
  IF ~({"project_key", "story_type_id"} \subseteq cfg.keys)
    THEN [ret |-> FALSE, tracker |-> tr, calls |-> <<>>]
  ELSE LET existing == Jql(tr, StoryJql(story_data)) IN
    IF sfail
      THEN [ret |-> FALSE, tracker |-> tr, calls |-> <<SearchCall(FALSE, <<>>)>>]
    ELSE IF existing # <<>>
      THEN [ret |-> TRUE, tracker |-> tr, calls |-> <<SearchCall(TRUE, existing)>>]
    ELSE IF cfail
      THEN [ret |-> FALSE, tracker |-> tr,
            calls |-> <<SearchCall(TRUE, existing), CreateCall(FALSE, StoryFields(story_data, key).epic, None)>>]
    ELSE LET tr2 == CreateIssue(tr, StoryFields(story_data, key)) IN
      [ret |-> TRUE, tracker |-> tr2,
       calls |-> <<SearchCall(TRUE, existing), CreateCall(TRUE, StoryFields(story_data, key).epic, tr2[Len(tr2)].key)>>]

\* The story's summary is already the summary of a story issue linked to key.
StoryPresent(tr, story_data, key) ==
  \E i \in 1..Len(tr) :
    tr[i].type = StoryTypeId /\ tr[i].summary = story_data.summary /\ tr[i].epic = key

\* ----------------------------------------------------------- import_stories
\* A remote call tagged with the entity it was issued for.
Tag(c, kind, e, s, r) ==
  [op |-> c.op, ok |-> c.ok, found |-> c.found, link |-> c.link, key |-> c.key,
   kind |-> kind, e |-> e, s |-> s, run |-> r]

TagAll(calls, kind, e, s, r) == [i \in 1..Len(calls) |-> Tag(calls[i], kind, e, s, r)]

AllOk(calls) == \A i \in 1..Len(calls) : calls[i].ok

\* Mutant: the stories are entered whatever _create_epic returned.
EntersStories_anyKey(key, epic_data) == Len(epic_data.stories) > 0

\* "if epic_key:" followed by the loop over epic_data.get('stories', []).
EntersStories(key, epic_data) == key # None /\ Len(epic_data.stories) > 0

\* Mutant: a failed story ends its epic's story loop.
AfterStory_break(e, s, ret, nstories) ==
  IF s < nstories /\ ret THEN [pc |-> "epic_stories", ei |-> e, si |-> s + 1]
  ELSE [pc |-> "epics", ei |-> e + 1, si |-> 0]

\* Mutant: a failed story is tried again.
AfterStory_retry(e, s, ret, nstories) ==
  IF ~ret THEN [pc |-> "epic_stories", ei |-> e, si |-> s]
  ELSE IF s < nstories THEN [pc |-> "epic_stories", ei |-> e, si |-> s + 1]
  ELSE [pc |-> "epics", ei |-> e + 1, si |-> 0]

\* The loop position after story s of epic e returned ret.
AfterStory(e, s, ret, nstories) ==
  IF s < nstories THEN [pc |-> "epic_stories", ei |-> e, si |-> s + 1]
  ELSE [pc |-> "epics", ei |-> e + 1, si |-> 0]

\* ------------------------------------------------------------------- Init
Init ==
  /\ pc = "load_config"
  /\ mode \in {"import", "metadata"}
  /\ config \in Configs
  /\ IF mode = "import"
       THEN doc \in Docs /\ tracker \in PreTrackers /\ projects = {}
       ELSE doc = [readable |-> FALSE, epics |-> <<>>] /\ tracker = <<>>
            /\ projects \in SUBSET {ProjectKey, OtherProject}
  /\ ei = 0
  /\ si = 0
  /\ epic_key = None
  /\ log = <<>>
  /\ returns = <<>>
  /\ exit_code = 0
  /\ run = 1
  /\ clean = TRUE
  /\ snapshot = <<>>
  /\ out = <<>>
  /\ fetches = <<>>

Exit(code) == pc' = "exited" /\ exit_code' = code

\* JiraImporter._load_config
LoadConfig ==
  /\ pc = "load_config"
  /\ IF config.readable THEN pc' = "init_client" /\ exit_code' = exit_code ELSE Exit(1)
  /\ UNCHANGED <<mode, config, doc, tracker, projects, ei, si, epic_key, log, returns, run, clean, snapshot, out, fetches>>

\* JiraImporter._init_jira_client
InitJiraClient ==
  /\ pc = "init_client"
  /\ IF {"url", "username", "api_token"} \subseteq config.keys
       THEN pc' = "main" /\ exit_code' = exit_code
       ELSE Exit(1)
  /\ UNCHANGED <<mode, config, doc, tracker, projects, ei, si, epic_key, log, returns, run, clean, snapshot, out, fetches>>

\* main: dispatch on the arguments
Main ==
  /\ pc = "main"
  /\ pc' = IF mode = "metadata" THEN "meta_projects" ELSE "load_stories"
  /\ UNCHANGED <<mode, config, doc, tracker, projects, ei, si, epic_key, log, returns, exit_code, run, clean, snapshot, out, fetches>>

\* Mutant: an unreadable stories file is taken for an empty document.
LoadStories_continues ==
  /\ pc = "load_stories"
  /\ pc' = "epics" /\ ei' = 1 /\ exit_code' = exit_code
  /\ UNCHANGED <<mode, config, doc, tracker, projects, si, epic_key, log, returns, run, clean, snapshot, out, fetches>>

\* JiraImporter._load_stories
LoadStories ==
  /\ pc = "load_stories"
  /\ IF doc.readable
       THEN pc' = "epics" /\ ei' = 1 /\ exit_code' = exit_code
       ELSE Exit(1) /\ ei' = ei
  /\ UNCHANGED <<mode, config, doc, tracker, projects, si, epic_key, log, returns, run, clean, snapshot, out, fetches>>

\* import_stories: one iteration of the epic loop, the call of _create_epic
CreateEpic ==
  /\ pc = "epics"
  /\ ei <= Len(doc.epics)
  /\ \E sfail \in BOOLEAN, cfail \in BOOLEAN :
       LET r == create_epic(tracker, config, doc.epics[ei], sfail, cfail) IN
         /\ tracker' = r.tracker
         /\ epic_key' = r.key
         /\ log' = log \o TagAll(r.calls, "epic", ei, 0, run)
         /\ clean' = (clean /\ AllOk(r.calls))
         /\ IF EntersStories(r.key, doc.epics[ei])
              THEN pc' = "epic_stories" /\ si' = 1 /\ ei' = ei
              ELSE pc' = "epics" /\ si' = 0 /\ ei' = ei + 1
  /\ UNCHANGED <<mode, config, doc, projects, returns, exit_code, run, snapshot, out, fetches>>

\* import_stories: one iteration of the story loop, the call of _create_story
CreateStory ==
  /\ pc = "epic_stories"
  /\ \E sfail \in BOOLEAN, cfail \in BOOLEAN :
       LET r == create_story(tracker, config, doc.epics[ei].stories[si], epic_key, sfail, cfail)
           nxt == AfterStory(ei, si, r.ret, Len(doc.epics[ei].stories))
       IN
         /\ tracker' = r.tracker
         /\ log' = log \o TagAll(r.calls, "story", ei, si, run)
         /\ returns' = Append(returns,
              [e |-> ei, s |-> si, run |-> run, ret |-> r.ret,
               present |-> StoryPresent(tracker, doc.epics[ei].stories[si], epic_key),
               changed |-> (r.tracker # tracker)])
         /\ clean' = (clean /\ AllOk(r.calls))
         /\ pc' = nxt.pc /\ ei' = nxt.ei /\ si' = nxt.si
  /\ UNCHANGED <<mode, config, doc, projects, epic_key, exit_code, run, snapshot, out, fetches>>

\* import_stories returns, main returns: exit status 0
ImportDone ==
  /\ pc = "epics"
  /\ ei > Len(doc.epics)
  /\ Exit(0)
  /\ UNCHANGED <<mode, config, doc, tracker, projects, ei, si, epic_key, log, returns, run, clean, snapshot, out, fetches>>

\* The operator runs the tool a second time on the same files, after a first
\* run in which no remote call raised.
Rerun ==
  /\ pc = "exited"
  /\ mode = "import"
  /\ run = 1
  /\ exit_code = 0
  /\ clean
  /\ run' = 2
  /\ pc' = "load_config"
  /\ snapshot' = tracker
  /\ ei' = 0 /\ si' = 0 /\ epic_key' = None
  /\ UNCHANGED <<mode, config, doc, tracker, projects, log, returns, exit_code, clean, out, fetches>>

\* ---------------------------------------------------------- print_metadata
\* Mutant: a configured key is enough, listed or not.
ProjectMatches_keyOnly(cfg, projs) == "project_key" \in cfg.keys

\* The configured key is the key of a listed project.
ProjectMatches(cfg, projs) == "project_key" \in cfg.keys /\ ProjectKey \in projs

\* A fetch: its outcome ("ok", "status" for a non-200 answer, "raised"), what
\* was logged for it, and how many sections had been printed when it was made.
Fetch(what, result, printed) ==
  [what |-> what, result |-> result, printed |-> printed,
   logged |-> IF result = "raised" THEN "error" ELSE IF result = "status" THEN "warning" ELSE "none"]

\* self.jira.projects() and the project table
MetaProjects ==
  /\ pc = "meta_projects"
  /\ \E fail \in BOOLEAN :
       IF fail
         THEN /\ fetches' = Append(fetches, Fetch("projects", "raised", Len(out)))
              /\ out' = out
              /\ Exit(1)
         ELSE /\ fetches' = Append(fetches, Fetch("projects", "ok", Len(out)))
              /\ out' = Append(out, "projects")
              /\ IF ProjectMatches(config, projects)
                   THEN pc' = "meta_issue_types" /\ exit_code' = exit_code
                   ELSE Exit(0)
  /\ UNCHANGED <<mode, config, doc, tracker, projects, ei, si, epic_key, log, returns, run, clean, snapshot>>

\* Mutant: a non-200 answer to the issue-type fetch ends the process.
MetaIssueTypes_statusFatal ==
  /\ pc = "meta_issue_types"
  /\ \E result \in {"ok", "status", "raised"} :
       /\ fetches' = Append(fetches, Fetch("issue_types", result, Len(out) + 1))
       /\ out' = IF result = "ok" THEN out \o <<"issue_types_header", "issue_types">>
                 ELSE Append(out, "issue_types_header")
       /\ IF result # "ok" THEN Exit(1) ELSE pc' = "meta_fields" /\ exit_code' = exit_code
  /\ UNCHANGED <<mode, config, doc, tracker, projects, ei, si, epic_key, log, returns, run, clean, snapshot>>

\* the issue-type header, the raw issue-type fetch and its table or warning
MetaIssueTypes ==
  /\ pc = "meta_issue_types"
  /\ \E result \in {"ok", "status", "raised"} :
       /\ fetches' = Append(fetches, Fetch("issue_types", result, Len(out) + 1))
       /\ out' = IF result = "ok" THEN out \o <<"issue_types_header", "issue_types">>
                 ELSE Append(out, "issue_types_header")
       /\ IF result = "raised" THEN Exit(1) ELSE pc' = "meta_fields" /\ exit_code' = exit_code
  /\ UNCHANGED <<mode, config, doc, tracker, projects, ei, si, epic_key, log, returns, run, clean, snapshot>>

\* the field header, get_all_fields() and the field table
MetaFields ==
  /\ pc = "meta_fields"
  /\ \E fail \in BOOLEAN :
       /\ fetches' = Append(fetches, Fetch("fields", IF fail THEN "raised" ELSE "ok", Len(out) + 1))
       /\ out' = IF fail THEN Append(out, "fields_header") ELSE out \o <<"fields_header", "fields">>
       /\ Exit(IF fail THEN 1 ELSE 0)
  /\ UNCHANGED <<mode, config, doc, tracker, projects, ei, si, epic_key, log, returns, run, clean, snapshot>>

Next ==
  \/ LoadConfig
  \/ InitJiraClient
  \/ Main
  \/ LoadStories
  \/ CreateEpic
  \/ CreateStory
  \/ ImportDone
  \/ Rerun
  \/ MetaProjects
  \/ MetaIssueTypes
  \/ MetaFields

Spec == Init /\ [][Next]_vars

\* ------------------------------------------------------------ the claims
IsCall(c, op, kind, r, e, s) ==
  c.op = op /\ c.kind = kind /\ c.run = r /\ c.e = e /\ c.s = s

\* A search that returned (did not raise) and found at least one issue.
Found(c) == c.op = "search" /\ c.ok /\ c.found # <<>>

\* A search that returned and found nothing.
NotFound(c) == c.op = "search" /\ c.ok /\ c.found = <<>>

\* C1: an epic whose search returns at least one issue gets no create call,
\* and every story create call for that epic carries the key of the first
\* issue the search returned in its epic-link field.
C1_ExistingEpicReused ==
  \A i \in DOMAIN log :
    (log[i].kind = "epic" /\ Found(log[i])) =>
      \A j \in DOMAIN log :
        (log[j].op = "create" /\ log[j].run = log[i].run /\ log[j].e = log[i].e) =>
          (log[j].kind = "story" /\ log[j].link = log[i].found[1])

\* An epic search returned two issues and a story was then created under it.
C1_Witness ==
  \E i \in DOMAIN log, j \in DOMAIN log :
    /\ log[i].kind = "epic" /\ Found(log[i]) /\ Len(log[i].found) > 1
    /\ log[j].op = "create" /\ log[j].kind = "story" /\ log[j].ok
    /\ log[j].run = log[i].run /\ log[j].e = log[i].e

CreatesFor(r, kind, e, s) == { j \in DOMAIN log : IsCall(log[j], "create", kind, r, e, s) }

SearchesFor(r, kind, e, s) == { j \in DOMAIN log : IsCall(log[j], "search", kind, r, e, s) }

\* C2 as stated: a story already present under the epic found or created for
\* its epic definition gets no create call and is treated as a success
\* (returns True) without the tracker being changed.
C2_AsStated ==
  \A k \in DOMAIN returns :
    returns[k].present =>
      /\ CreatesFor(returns[k].run, "story", returns[k].e, returns[k].s) = {}
      /\ ~returns[k].changed
      /\ returns[k].ret

\* C2 amended: a story already present under its epic gets no create call and
\* the tracker is left unchanged; it is treated as a success whenever the
\* search for it returns.
C2_PresentStoryNotCreated ==
  \A k \in DOMAIN returns :
    returns[k].present =>
      /\ CreatesFor(returns[k].run, "story", returns[k].e, returns[k].s) = {}
      /\ ~returns[k].changed
      /\ (\E j \in SearchesFor(returns[k].run, "story", returns[k].e, returns[k].s) : log[j].ok)
           => returns[k].ret

\* A present story was visited, its search returned, and it was a success.
C2_Witness ==
  \E k \in DOMAIN returns :
    /\ returns[k].present /\ returns[k].ret
    /\ \E j \in SearchesFor(returns[k].run, "story", returns[k].e, returns[k].s) : Found(log[j])

\* C3: when the create call of an epic raises, no search and no create is
\* issued for any of its stories, and once the run has ended every later epic
\* of the document has been searched, and created if its search found nothing.
C3_FailedEpicSkipsStories ==
  \A i \in DOMAIN log :
    (log[i].op = "create" /\ log[i].kind = "epic" /\ ~log[i].ok) =>
      /\ \A j \in DOMAIN log :
           ~(log[j].kind = "story" /\ log[j].run = log[i].run /\ log[j].e = log[i].e)
      /\ (pc = "exited" /\ log[i].run = run) =>
           \A e2 \in (log[i].e + 1)..Len(doc.epics) :
             /\ SearchesFor(run, "epic", e2, 0) # {}
             /\ \A j \in SearchesFor(run, "epic", e2, 0) :
                  NotFound(log[j]) => CreatesFor(run, "epic", e2, 0) # {}

\* An epic with stories failed to be created and a later epic was created.
C3_Witness ==
  /\ pc = "exited"
  /\ \E i \in DOMAIN log, j \in DOMAIN log :
       /\ log[i].op = "create" /\ log[i].kind = "epic" /\ ~log[i].ok
       /\ Len(doc.epics[log[i].e].stories) > 0
       /\ log[j].op = "create" /\ log[j].kind = "epic" /\ log[j].ok
       /\ log[j].e > log[i].e

Visited(r, e, s) == \E k \in DOMAIN returns : returns[k].run = r /\ returns[k].e = e /\ returns[k].s = s

\* _create_epic obtained a key for epic e in run r.
EpicKeyObtained(r, e) ==
  \/ \E j \in SearchesFor(r, "epic", e, 0) : Found(log[j])
  \/ \E j \in CreatesFor(r, "epic", e, 0) : log[j].ok

C5_SecondRunCreatesNothing ==
  run = 2 =>
    /\ \A j \in DOMAIN log : log[j].run = 2 => log[j].op # "create"
    /\ tracker = snapshot

\* The first run created an epic and a story; the second run has ended after
\* searching for both.
C5_Witness ==
  /\ run = 2 /\ pc = "exited"
  /\ \E i \in DOMAIN log, j \in DOMAIN log :
       /\ log[i].run = 1 /\ log[i].op = "create" /\ log[i].kind = "epic" /\ log[i].ok
       /\ log[j].run = 1 /\ log[j].op = "create" /\ log[j].kind = "story" /\ log[j].ok
       /\ log[j].e = log[i].e
       /\ \E a \in SearchesFor(2, "epic", log[i].e, 0) : Found(log[a])
       /\ \E b \in SearchesFor(2, "story", log[j].e, log[j].s) : Found(log[b])

\* The configuration was loaded and the client initialised.
ClientReady == config.readable /\ {"url", "username", "api_token"} \subseteq config.keys

C7_AsStated ==
  (mode = "metadata" /\ pc = "exited") =>
    \A k \in DOMAIN fetches :
      fetches[k].result # "ok" =>
        /\ fetches[k].logged = "error"
        /\ exit_code = 1
        /\ Len(out) = fetches[k].printed

\* C7 amended: a fetch that raises is logged as an error, ends the process
\* with status 1, and nothing is printed after it; an issue-type fetch that
\* is answered with a non-200 status is logged as a warning and the run goes
\* on to the field section.
C7_RaisedFetchFatal ==
  mode = "metadata" =>
    \A k \in DOMAIN fetches :
      /\ fetches[k].result = "raised" =>
           /\ fetches[k].logged = "error"
           /\ pc = "exited" /\ exit_code = 1
           /\ k = Len(fetches)
           /\ Len(out) = fetches[k].printed
      /\ fetches[k].result = "status" =>
           /\ fetches[k].what = "issue_types" /\ fetches[k].logged = "warning"
           /\ IF k = Len(fetches) THEN pc = "meta_fields"
              ELSE fetches[k + 1].what = "fields" /\ out[fetches[k].printed + 1] = "fields_header"

\* The issue-type fetch was answered non-200 and the field fetch then raised.
C7_Witness ==
  /\ mode = "metadata" /\ pc = "exited" /\ exit_code = 1
  /\ Len(fetches) = 3
  /\ fetches[2].result = "status"
  /\ fetches[3].result = "raised"

\* C8 as stated: in import mode a configuration lacking any one of the six
\* settings ends in exit status 1 and no search or create call is made.
C8_AsStated ==
  (mode = "import" /\ config.readable /\ config.keys # ConfigKeys) =>
    /\ log = <<>>
    /\ pc = "exited" => exit_code = 1

Printed(section) == \E i \in DOMAIN out : out[i] = section

Fetched(what) == \E k \in DOMAIN fetches : fetches[k].what = what

\* C9: in metadata mode the project list is printed first, the issue-type
\* section and then the field section only when the configuration holds a
\* project_key that is the key of a listed project; otherwise only the
\* project list is printed, no further fetch is made and the exit status is 0.
C9_MetadataSections ==
  mode = "metadata" =>
    /\ out # <<>> => out[1] = "projects"
    /\ \A i \in DOMAIN out, j \in DOMAIN out :
         (out[i] \in {"issue_types_header", "issue_types"} /\ out[j] \in {"fields_header", "fields"}) => i < j
    /\ (Printed("issue_types_header") \/ Printed("fields_header") \/ Fetched("issue_types") \/ Fetched("fields"))
         => ("project_key" \in config.keys /\ ProjectKey \in projects)
    /\ (pc = "exited" /\ Fetched("projects") /\ fetches[1].result = "ok"
        /\ ~("project_key" \in config.keys /\ ProjectKey \in projects))
         => (out = <<"projects">> /\ Len(fetches) = 1 /\ exit_code = 0)

\* A project_key is configured, the list holds only another project, and the
\* report ended after the project list.
C9_Witness ==
  /\ mode = "metadata" /\ pc = "exited"
  /\ "project_key" \in config.keys /\ projects = {OtherProject}
  /\ out = <<"projects">>

\* Position of a call in document order: run, epic, story (0 for the epic
\* itself), search before create.
Pos(c) == <<c.run, c.e, c.s, IF c.op = "search" THEN 0 ELSE 1>>

LexLess(a, b) ==
  \E k \in 1..4 : a[k] < b[k] /\ \A m \in 1..(k - 1) : a[m] = b[m]

\* Consecutive calls are strictly ordered, so all calls are (the order is
\* transitive).
C10_Order ==
  /\ \A j \in DOMAIN log : j > 1 => LexLess(Pos(log[j - 1]), Pos(log[j]))
  /\ \A j \in DOMAIN log :
       log[j].op = "create" =>
         /\ j > 1
         /\ IsCall(log[j - 1], "search", log[j].kind, log[j].run, log[j].e, log[j].s)
         /\ NotFound(log[j - 1])
  /\ (mode = "import" /\ config.keys = ConfigKeys /\ doc.readable /\ pc = "exited") =>
       \A e \in 1..Len(doc.epics) : Cardinality(SearchesFor(run, "epic", e, 0)) = 1

\* Entities of the document from epic k on.
RECURSIVE Work(_, _)
Work(epics, k) ==
  IF k > Len(epics) THEN 0 ELSE 1 + Len(epics[k].stories) + Work(epics, k + 1)

\* An upper bound on the steps the current run has left.
Remaining ==
  CASE pc = "exited" -> 0
    [] pc = "meta_fields" -> 1
    [] pc = "meta_issue_types" -> 2
    [] pc = "meta_projects" -> 3
    [] pc = "epics" -> 1 + Work(doc.epics, ei)
    [] pc = "epic_stories" -> 2 + Len(doc.epics[ei].stories) - si + Work(doc.epics, ei + 1)
    [] pc = "load_stories" -> 2 + Work(doc.epics, 1)
    [] pc = "main" -> 4 + Work(doc.epics, 1)
    [] pc = "init_client" -> 5 + Work(doc.epics, 1)
    [] pc = "load_config" -> 6 + Work(doc.epics, 1)

Measure == Remaining + (IF run = 1 /\ mode = "import" THEN 7 + Work(doc.epics, 1) ELSE 0)

\* C10: a run terminates (every step lowers a natural-number measure and the
\* process is never stuck before it has exited) and its remote calls follow
\* document order without retry: calls are strictly ordered by run, epic,
\* story and search-before-create, so no entity is searched or created
\* twice and an epic's stories come between it and the next epic; a create
\* directly follows its entity's own search that found nothing; with a
\* complete configuration every epic is searched exactly once.
C10_OrderedTermination ==
  /\ []C10_Order
  /\ [](Measure >= 0 /\ (pc # "exited" => ENABLED Next))
  /\ [][Measure' < Measure]_vars

\* A run over two epics with a story each ended having created all four.
C10_Witness ==
  /\ pc = "exited" /\ run = 1 /\ Len(doc.epics) = 2
  /\ Cardinality({ j \in DOMAIN log : log[j].op = "create" /\ log[j].ok }) = 4
  /\ \A e \in 1..2 : Len(doc.epics[e].stories) = 1

====
